---- MODULE Spec2Model ----
(***************************************************************************)
(* A model of the statement tracer of run.py: the Logger (a bdb.Bdb        *)
(* subclass) that is notified before every statement, on every return and  *)
(* on every exception of a target program, the timeline materializer and   *)
(* the driving routine main.  The target program is one of a small set of  *)
(* programs; the interpreter that runs it is the environment that produces *)
(* the notifications.                                                      *)
(***************************************************************************)
EXTENDS Integers, Sequences, FiniteSets, TLC

(***************************************************************************)
(* Bounds of the model.                                                    *)
(***************************************************************************)
\* most body traversals of a data-dependent loop in one activation
MaxIter == 2
\* deepest call stack on which a conditional may still be taken
MaxDepth == 2
\* the longest source text and the deepest assignment target handed to the
\* write-set analyzer
MaxLines == 3
MaxNest == 2

(***************************************************************************)
(* Python values.  A dict may hold an int under one key and a str under    *)
(* the same key in another dict, so every value carries its type.          *)
(***************************************************************************)
PyInt(n) == [t |-> "int", v |-> n]
PyStr(s) == [t |-> "str", v |-> s]
PyFunction == [t |-> "function", v |-> 0]
PyFrame(id, name) == [t |-> "frame", v |-> id, co_name |-> name]
PyRef(key, idx) == [t |-> "ref", v |-> <<key, idx>>]
PyExc(cls, msg) == [t |-> "exc", v |-> msg, cls |-> cls]
None == [t |-> "NoneType", v |-> 0]

EmptyDict == [k \in {} |-> None]
DictSet(d, k, val) == [x \in (DOMAIN d) \cup {k} |-> IF x = k THEN val ELSE d[x]]

repr(val) ==
  IF val.t = "int" THEN PyStr(ToString(val.v))
  ELSE IF val.t = "str" THEN PyStr("'" \o val.v \o "'")
  ELSE IF val.t = "NoneType" THEN PyStr("None")
  ELSE PyStr("<" \o val.t \o ">")

magic_var_name == "__run_py__"
StepBudget == 100

(***************************************************************************)
(* Target programs.  A line is its indentation, the kind of statement it   *)
(* holds, the function it calls (if any), the name it binds (if any) and,  *)
(* for a loop header, the number of traversals (0: data dependent,         *)
(* -1: endless).                                                           *)
(***************************************************************************)
Ln(ind, kind, callee, w, n) == [ind |-> ind, kind |-> kind, callee |-> callee, w |-> w, n |-> n]

\* nested loops with a break
ProgBreak ==
  << Ln(0, "loop", "", "i", 0),        \*  0  for i in xs:
     Ln(4, "loop", "", "j", 0),        \*  1      for j in ys:
     Ln(8, "if", "", "", 0),           \*  2          if c:
     Ln(12, "break", "", "", 0),       \*  3              break
     Ln(4, "stmt", "", "x", 0),        \*  4      x = 1
     Ln(0, "noop", "", magic_var_name, 0) >>

\* a return inside a loop of a function that is called from a loop
ProgReturn ==
  << Ln(0, "def", "", "f", 0),         \*  0  def f():
     Ln(4, "loop", "", "i", 0),        \*  1      for i in xs:
     Ln(8, "if", "", "", 0),           \*  2          if c:
     Ln(12, "return", "", "", 0),      \*  3              return i
     Ln(4, "return", "", "", 0),       \*  4      return 0
     Ln(0, "loop", "", "j", 0),        \*  5  for j in ys:
     Ln(4, "stmt", "f", "y", 0),       \*  6      y = f()
     Ln(0, "noop", "", magic_var_name, 0) >>

\* a recursive function whose recursive call sits in nested loops
ProgRecursive ==
  << Ln(0, "def", "", "f", 0),         \*  0  def f(n):
     Ln(4, "loop", "", "i", 1),        \*  1      for i in range(1):
     Ln(8, "loop", "", "j", 1),        \*  2          for j in range(1):
     Ln(12, "if", "", "", 0),          \*  3              if n > 0:
     Ln(16, "stmt", "f", "", 0),       \*  4                  f(n-1)
     Ln(4, "return", "", "", 0),       \*  5      return n
     Ln(0, "stmt", "f", "", 0),        \*  6  f(1)
     Ln(0, "noop", "", magic_var_name, 0) >>

\* exceptions: handled, unhandled, raised and handled inside a library call
ProgRaise ==
  << Ln(0, "def", "", "g", 0),         \*  0  def g(p):
     Ln(4, "return", "$lib", "", 0),   \*  1      return os.path.exists(p)
     Ln(0, "def", "", "h", 0),         \*  2  def h(v):
     Ln(4, "loop", "", "i", 0),        \*  3      for i in xs:
     Ln(8, "raise", "", "", 0),        \*  4          raise ValueError(v)
     Ln(0, "def", "", "k", 0),         \*  5  def k():
     Ln(4, "try", "", "", 0),          \*  6      try:
     Ln(8, "stmt", "h", "", 0),        \*  7          h(1)
     Ln(4, "except", "", "", 0),       \*  8      except ValueError:
     Ln(8, "return", "", "", 0),       \*  9          return 0
     Ln(0, "stmt", "g", "y", 0),       \* 10  y = g("/nonexistent")
     Ln(0, "stmt", "<listcomp>", "z", 0), \* 11  z = [a for a in y]
     Ln(0, "stmt", "k", "", 0),        \* 12  k()
     Ln(0, "stmt", "h", "", 0),        \* 13  h(2)
     Ln(0, "noop", "", magic_var_name, 0) >>

\* a function that ends right after its loop, called from a loop
ProgFallOff ==
  << Ln(0, "def", "", "g", 0),         \*  0  def g():
     Ln(4, "loop", "", "i", 0),        \*  1      for i in xs:
     Ln(8, "stmt", "", "x", 0),        \*  2          x = i
     Ln(0, "loop", "", "k", 0),        \*  3  for k in ys:
     Ln(4, "stmt", "g", "", 0),        \*  4      g()
     Ln(0, "noop", "", magic_var_name, 0) >>

\* a function that ends right after its loop, called from a loop of a
\* function that returns from inside that loop
ProgLeakReturn ==
  << Ln(0, "def", "", "g", 0),         \*  0  def g():
     Ln(4, "loop", "", "i", 0),        \*  1      for i in xs:
     Ln(8, "stmt", "", "x", 0),        \*  2          x = i
     Ln(0, "def", "", "h", 0),         \*  3  def h():
     Ln(4, "loop", "", "k", 0),        \*  4      for k in ys:
     Ln(8, "if", "", "", 0),           \*  5          if c:
     Ln(12, "return", "", "", 0),      \*  6              return k
     Ln(8, "stmt", "g", "", 0),        \*  7          g()
     Ln(0, "stmt", "h", "", 0),        \*  8  h()
     Ln(0, "noop", "", magic_var_name, 0) >>

\* the step budget is reached at the return of a function
ProgBudgetReturn ==
  << Ln(0, "def", "", "f", 0),         \*  0  def f():
     Ln(4, "return", "", "", 0),       \*  1      return 1
     Ln(0, "loop", "", "i", 48),       \*  2  for i in range(48):
     Ln(4, "stmt", "", "x", 0),        \*  3      x = i
     Ln(0, "stmt", "f", "", 0),        \*  4  f()
     Ln(0, "noop", "", magic_var_name, 0) >>

\* the step budget is reached before a statement
ProgBudgetLine ==
  << Ln(0, "loop", "", "", -1),        \*  0  while True:
     Ln(4, "stmt", "", "x", 0),        \*  1      x = 1
     Ln(0, "noop", "", magic_var_name, 0) >>

\* a variable whose name is the name of a bookkeeping field
ProgNames ==
  << Ln(0, "stmt", "", "time", 0),     \*  0  time = 1
     Ln(0, "stmt", "", "x", 0),        \*  1  x = 2
     Ln(0, "noop", "", magic_var_name, 0) >>

\* an injected no-op line that is invalid where it stands, and a program
\* that does not parse at all (n = 1 marks the line the parser rejects)
ProgBadNoop ==
  << Ln(0, "stmt", "", "x", 0),        \*  0  x = (1,
     Ln(4, "noop", "", magic_var_name, 1), \* 1  (blank line inside brackets)
     Ln(4, "cont", "", "", 0),         \*  2      2)
     Ln(0, "noop", "", magic_var_name, 0) >>

ProgSyntaxError ==
  << Ln(0, "stmt", "", "x", 0),        \*  0  x = 1
     Ln(0, "stmt", "", "", 1),         \*  1  y = = 2
     Ln(0, "noop", "", magic_var_name, 0) >>

\* the step budget is reached at a return of a function that has returned
\* before, with another value
ProgBudgetRv ==
  << Ln(0, "def", "", "f", 0),         \*  0  def f():
     Ln(4, "return", "", "i", 0),      \*  1      return i
     Ln(0, "loop", "", "i", -1),       \*  2  for i in itertools.count():
     Ln(4, "stmt", "f", "", 0),        \*  3      f()
     Ln(0, "noop", "", magic_var_name, 0) >>

\* a function the program never calls, with a local named like a field
ProgTestNames ==
  << Ln(0, "def", "", "f", 0),         \*  0  def f():
     Ln(4, "stmt", "", "time", 0),     \*  1      time = 2
     Ln(4, "raise", "", "", 0),        \*  2      raise ValueError("3")
     Ln(0, "noop", "", magic_var_name, 0) >>

\* a variable named like a link field
ProgLinkNames ==
  << Ln(0, "stmt", "", "next_lineno", 0),  \*  0  next_lineno = 1
     Ln(0, "noop", "", magic_var_name, 0) >>

Programs ==
  << ProgBreak, ProgReturn, ProgRecursive, ProgRaise, ProgFallOff,
     ProgLeakReturn, ProgBudgetReturn, ProgBudgetLine, ProgNames, ProgBadNoop, ProgSyntaxError,
     ProgBudgetRv, ProgTestNames, ProgLinkNames >>

(***************************************************************************)
(* Test comments: "## <call>" or "## <call> == <value>"; a comment of any  *)
(* other form does not parse.  fn is the function the call names.          *)
(***************************************************************************)
BadComment == [kind |-> "bad", fn |-> "", expected |-> [t |-> "NoneType", v |-> 0]]
CallComment(fn) == [kind |-> "call", fn |-> fn, expected |-> [t |-> "NoneType", v |-> 0]]
EqComment(fn, n) == [kind |-> "eq", fn |-> fn, expected |-> [t |-> "int", v |-> n]]

\* the functions the test comments of the files call, file by file
TestFns ==
  << {}, {"f"}, {}, {"g"}, {"g"}, {}, {}, {}, {}, {}, {}, {"f"}, {"f"}, {} >>

\* the lists of test comments of file p: none; a call; a comment that does
\* not parse, a call of a function the source lacks, and a comparison
TestComments(p) ==
  { <<>> }
  \cup { << CallComment(fn) >> : fn \in TestFns[p] }
  \cup { << BadComment, CallComment("undefined"), EqComment(fn, 4) >> : fn \in TestFns[p] }

VARIABLES
  prog,               \* the program handed to main (an index of Programs)
  lines,              \* main's lines: the normalized source, one entry per line
  phase,              \* where main is: "start", "trace", "tests", "eval", "done"
  stack,              \* the interpreter's call stack of the target, innermost last
  pc,                 \* the notification the interpreter delivers next
  nextId,             \* identity of the next frame object
  time,               \* Logger.time
  prev_env,           \* Logger.prev_env: None or a reference to an env in data
  data,               \* Logger.data: line key -> list of env dicts
  active_loops,       \* Logger.active_loops: list of LoopInfo
  preexisting_locals, \* Logger.preexisting_locals: None or a set of names
  exception,          \* Logger.exception
  quitting,           \* bdb.Bdb.quitting
  return_code,        \* main's return_code
  run_time_data,      \* main's run_time_data
  written,            \* main has written the output file
  comments,           \* main's test_comments
  tests,              \* compute_runtime_data's tests: the comments that parsed
  ti,                 \* the place in tests of the loop over tests
  test_results,       \* compute_runtime_data's test_results
  evalv,              \* what the running runeval has to return, and whether
                      \* the call of the test has returned
  crd_exception,      \* compute_runtime_data's exception
  run_end,            \* history: data, time and active_loops when run ended
  w_phase,            \* where compute_writes is: "off", "parse", "visit", "done"
  w_exception,        \* compute_writes's exception
  writes,             \* WriteCollector.data: line -> list of identifiers
  node,               \* the assignment target visited last
  w_i,                \* the line whose statement the visit has reached
  retried             \* history: the parse-and-retry loop has gone round

tvars == << comments, tests, ti, test_results, evalv, crd_exception, run_end >>

wvars == << w_phase, w_exception, writes, node, w_i, retried >>

\* main and the tracer, but for lines, which compute_writes shares
mvars == << prog, phase, stack, pc, nextId, time, prev_env, data,
            active_loops, preexisting_locals, exception, quitting,
            return_code, run_time_data, written, tvars >>

vars == << lines, mvars, wvars >>

(***************************************************************************)
(* The text of a line as the tracer reads it.                              *)
(***************************************************************************)
\* a blanked line is "\n": len("\n") - len("") = 1
indent(str) == IF str.kind = "blank" THEN 1 ELSE str.ind
is_loop_str(str) == str.kind = "loop"
is_break_str(str) == str.kind = "break"
is_return_str(str) == str.kind = "return"
IsBlankStr(str) == str.kind = "blank"

remove_R(lineno) ==
  IF lineno.t = "str"
  THEN CHOOSE n \in 0..Len(lines) : "R" \o ToString(n) = lineno.v
  ELSE lineno.v

(***************************************************************************)
(* The interpreter: the control flow of the target program.  Lines are     *)
(* numbered from 1 here (f_lineno); 0 stands for "no line".                *)
(***************************************************************************)
Executable(i) == lines[i].kind \notin {"blank", "cont"}

\* the first statement after line i and its block, 0 if there is none
NextAfterBlock(i) ==
  LET later == { j \in (i+1)..Len(lines) : Executable(j) /\ lines[j].ind <= lines[i].ind }
  IN IF later = {} THEN 0 ELSE CHOOSE j \in later : \A k \in later : j <= k

\* the first statement of the block of the compound statement at line i
FirstInBlock(i) ==
  CHOOSE j \in (i+1)..Len(lines) : Executable(j) /\ \A k \in (i+1)..(j-1) : ~Executable(k)

\* the compound statement whose block holds line i, 0 at the top level
Enclosing(i) ==
  LET outer == { p \in 1..(i-1) : Executable(p) /\ lines[p].ind < lines[i].ind }
  IN IF outer = {} THEN 0 ELSE CHOOSE p \in outer : \A k \in outer : k <= p

RECURSIVE After(_)
\* the line executed after the statement at line i is complete, 0 when the
\* frame ends
After(i) ==
  LET q == NextAfterBlock(i)
      p == Enclosing(i)
  IN IF q # 0 /\ lines[q].ind = lines[i].ind THEN q
     ELSE IF p = 0 THEN 0
     ELSE IF lines[p].kind = "loop" THEN p
     ELSE IF lines[p].kind = "try" THEN After(NextAfterBlock(p))
     ELSE IF lines[p].kind = "def" THEN 0
     ELSE After(p)

RECURSIVE Handler(_)
\* the except line that catches an exception raised at line i, 0 if none
Handler(i) ==
  LET p == Enclosing(i)
  IN IF p = 0 \/ lines[p].kind = "def" THEN 0
     ELSE IF lines[p].kind = "try" THEN NextAfterBlock(p)
     ELSE Handler(p)

RECURSIVE InnerLoop(_)
\* the header of the innermost loop around line i
InnerLoop(i) ==
  LET p == Enclosing(i)
  IN IF p = 0 \/ lines[p].kind = "loop" THEN p ELSE InnerLoop(p)

RECURSIVE Encloses(_, _)
\* line p is a compound statement around line i
Encloses(p, i) ==
  LET q == Enclosing(i)
  IN IF q = 0 THEN FALSE ELSE IF q = p THEN TRUE ELSE Encloses(p, q)

DefLine(name) == CHOOSE i \in 1..Len(lines) : lines[i].kind = "def" /\ lines[i].w = name

(***************************************************************************)
(* The Logger.  S is the Logger object: its fields time, prev_env, data,   *)
(* active_loops, preexisting_locals, exception, the quitting flag of bdb   *)
(* and raised, the error a handler raised itself ("" if none).             *)
(***************************************************************************)
LoopInfo(frame, lineno, ind) == [frame |-> frame, lineno |-> lineno, indent |-> ind, iter |-> 0]

data_at(D, l) == IF l \in DOMAIN D THEN D ELSE DictSet(D, l, <<>>)

Deref(D, ref) == D[ref.v[1]][ref.v[2]]

Filtered(frame) ==
  \/ frame.co_name = "<listcomp>"
  \/ frame.co_name = "<dictcomp>"
  \/ frame.co_filename # "<string>"

RECURSIVE StmtsFrom(_, _)
StmtsFrom(l, loop_indent) ==
  IF l >= Len(lines) THEN <<>>
  ELSE LET line == lines[l + 1]
       IN IF IsBlankStr(line) THEN StmtsFrom(l + 1, loop_indent)
          ELSE IF indent(line) <= loop_indent THEN <<>>
          ELSE <<l>> \o StmtsFrom(l + 1, loop_indent)

stmts_in_loop(lineno) == StmtsFrom(lineno + 1, indent(lines[lineno + 1]))

RECURSIVE Join(_)
Join(strs) ==
  IF Len(strs) = 0 THEN ""
  ELSE IF Len(strs) = 1 THEN strs[1]
  ELSE strs[1] \o "," \o Join(Tail(strs))

active_loops_iter_str(AL) == Join([i \in DOMAIN AL |-> ToString(AL[i].iter)])

active_loops_id_str(AL) == Join([i \in DOMAIN AL |-> ToString(AL[i].lineno)])

add_loop_info(AL, env) ==
  DictSet(DictSet(env, "#", PyStr(active_loops_iter_str(AL))),
          "$", PyStr(active_loops_id_str(AL)))

create_begin_loop_dummy_env(AL) ==
  add_loop_info(AL, DictSet(EmptyDict, "begin_loop", PyStr(active_loops_iter_str(AL))))

create_end_loop_dummy_env(AL) ==
  add_loop_info(AL, DictSet(EmptyDict, "end_loop", PyStr(active_loops_iter_str(AL))))

RECURSIVE AppendAll(_, _, _)
\* for l in ls: data_at(l).append(env)
AppendAll(D, ls, env) ==
  IF ls = <<>> THEN D
  ELSE LET k == PyInt(Head(ls))
           D1 == data_at(D, k)
       IN AppendAll([D1 EXCEPT ![k] = Append(@, env)], Tail(ls), env)

\* the body of the loops that close one LoopInfo: markers, then the pop
CloseTop(S, AL) ==
  LET n == Len(AL)
  IN [S EXCEPT !.data = AppendAll(S.data, stmts_in_loop(AL[n].lineno),
                                  create_end_loop_dummy_env(AL)),
               !.active_loops = SubSeq(AL, 1, n - 1)]

RECURSIVE PopAll(_)
\* while len(self.active_loops) > 0: ...
PopAll(S) ==
  IF Len(S.active_loops) = 0 THEN S
  ELSE PopAll(CloseTop(S, [S.active_loops EXCEPT ![Len(S.active_loops)].iter = @ + 1]))

record_loop_end(S, frame, lineno) ==
  LET curr_stmt == lines[lineno + 1]
      n == Len(S.active_loops)
  IN IF S.prev_env # None /\ n > 0 /\ S.active_loops[n].frame.v = frame.id
     THEN LET prevE == Deref(S.data, S.prev_env)
              prev_lineno == remove_R(prevE["lineno"])
              prev_stmt == lines[prev_lineno + 1]
              loop_indent == S.active_loops[n].indent
              curr_indent == indent(curr_stmt)
              curr_frame_name == frame.co_name
              prev_frame_name == prevE["frame"].co_name
          IN IF is_return_str(prev_stmt) /\ curr_frame_name = prev_frame_name
             THEN PopAll(S)
             ELSE IF curr_indent <= loop_indent /\ lineno # S.active_loops[n].lineno
             THEN CloseTop(S, IF is_break_str(prev_stmt)
                              THEN [S.active_loops EXCEPT ![n].iter = @ + 1]
                              ELSE S.active_loops)
             ELSE S
     ELSE S

record_loop_begin(S, frame, lineno) ==
  LET curr_stmt == lines[lineno + 1]
      n == Len(S.active_loops)
  IN IF is_loop_str(curr_stmt)
     THEN IF n > 0 /\ S.active_loops[n].lineno = lineno
          THEN [S EXCEPT !.active_loops[n].iter = @ + 1]
          ELSE LET AL == Append(S.active_loops,
                                LoopInfo(PyFrame(frame.id, frame.co_name), lineno, indent(curr_stmt)))
               IN [S EXCEPT !.active_loops = AL,
                            !.data = AppendAll(S.data, stmts_in_loop(lineno),
                                               create_begin_loop_dummy_env(AL))]
     ELSE S

compute_repr(val) ==
  IF val.t = "function" THEN None
  ELSE IF val.t = "module" THEN None
  ELSE repr(val)

\* the names of frame.f_locals that record_env copies into the env
Captured(S, frame) ==
  { k \in DOMAIN frame.f_locals :
      /\ k # magic_var_name
      /\ (frame.co_name # "<module>" \/ k \notin S.preexisting_locals.v)
      /\ compute_repr(frame.f_locals[k]) # None }

\* the next value of the time counter
Tick(t) == t + 1

record_env(S, frame, lineno) ==
  IF S.time >= StepBudget THEN [S EXCEPT !.quitting = TRUE]
  ELSE
    LET env0 == add_loop_info(S.active_loops,
                  DictSet(DictSet(EmptyDict, "frame", PyFrame(frame.id, frame.co_name)),
                          "time", PyInt(S.time)))
        names == Captured(S, frame)
        env1 == [k \in (DOMAIN env0) \cup names |->
                   IF k \in names THEN compute_repr(frame.f_locals[k]) ELSE env0[k]]
        env2 == DictSet(env1, "lineno", lineno)
        D1 == data_at(S.data, lineno)
        env3 == IF S.prev_env # None
                THEN DictSet(env2, "prev_lineno", Deref(S.data, S.prev_env)["lineno"])
                ELSE env2
        D2 == [D1 EXCEPT ![lineno] = Append(@, env3)]
        D3 == IF S.prev_env # None
              THEN [D2 EXCEPT ![S.prev_env.v[1]][S.prev_env.v[2]] = DictSet(@, "next_lineno", lineno)]
              ELSE D2
    IN [S EXCEPT !.time = Tick(S.time),
                 !.data = D3,
                 !.prev_env = PyRef(lineno, Len(D3[lineno]))]

user_line(S, frame) ==
  LET S1 == IF frame.co_name = "<module>" /\ S.preexisting_locals = None
            THEN [S EXCEPT !.preexisting_locals = [t |-> "set", v |-> DOMAIN frame.f_locals]]
            ELSE S
      adjusted_lineno == frame.f_lineno - 1
  IN IF Filtered(frame) THEN S1
     ELSE record_loop_begin(
            record_env(
              record_loop_end([S1 EXCEPT !.exception = None], frame, adjusted_lineno),
              frame, PyInt(adjusted_lineno)),
            frame, adjusted_lineno)

user_exception(S, frame, e) == [S EXCEPT !.exception = e]

add_red_format(html) == "<div style='color:red;'>" \o html \o "</div>"
\* the fence of three backquotes is written with quotes: a string of this
\* language cannot hold a backquote
add_html_escape(html) == "'''html\n" \o html \o "\n'''"

user_return(S, frame, rv) ==
  LET adjusted_lineno == frame.f_lineno - 1
      key == PyStr("R" \o ToString(adjusted_lineno))
      S1 == record_env(S, frame, key)
      r == IF S1.exception = None THEN compute_repr(rv)
           ELSE PyStr(add_html_escape(add_red_format(S1.exception.cls \o ": " \o S1.exception.v)))
      rv_name == IF S1.exception = None THEN "rv" ELSE "Exception Thrown"
      D1 == data_at(S1.data, key)
      n == Len(D1[key])
  IN IF Filtered(frame) THEN S
     ELSE IF r # None /\ (frame.co_name # "<module>" \/ S1.exception # None)
     THEN IF n = 0
          THEN [S1 EXCEPT !.data = D1, !.raised = "IndexError"]
          ELSE record_loop_end([S1 EXCEPT !.data = [D1 EXCEPT ![key][n] = DictSet(@, rv_name, r)]],
                               frame, adjusted_lineno)
     ELSE record_loop_end(S1, frame, adjusted_lineno)

(***************************************************************************)
(* The timeline materializer.                                              *)
(***************************************************************************)
Refs(D) == UNION { { <<k, i>> : i \in DOMAIN D[k] } : k \in DOMAIN D }

\* envs_by_time: the time stamp of every env that carries one -> that env
envs_by_time(D) ==
  LET timed == { r \in Refs(D) : "time" \in DOMAIN D[r[1]][r[2]] }
      stamps == { D[r[1]][r[2]]["time"] : r \in timed }
  IN [ts \in stamps |->
        LET r == CHOOSE q \in timed : D[q[1]][q[2]]["time"] = ts IN D[r[1]][r[2]]]

\* the forward-step test of the inner loop
ForwardStep(env, next_env, L) ==
  LET curr_stmt == L[env["lineno"].v + 1]
      next_stmt == L[remove_R(next_env["lineno"]) + 1]
  IN \/ "Exception Thrown" \in DOMAIN next_env
     \/ ~is_loop_str(curr_stmt)
     \/ indent(next_stmt) > indent(curr_stmt)

RECURSIVE SuccessorSearchesOn(_, _, _, _)
\* Successor with the break moved into the forward-step branch: the search
\* goes on past a same-frame env that is no forward step
SuccessorSearchesOn(env, next_time, ebt, L) ==
  IF PyInt(next_time) \notin DOMAIN ebt THEN [out |-> <<>>, err |-> FALSE]
  ELSE LET next_env == ebt[PyInt(next_time)]
       IN IF /\ "frame" \in DOMAIN env
             /\ "frame" \in DOMAIN next_env
             /\ env["frame"].v = next_env["frame"].v
          THEN IF env["lineno"].t # "int" THEN [out |-> <<>>, err |-> TRUE]
               ELSE IF ForwardStep(env, next_env, L)
               THEN [out |-> <<next_env>>, err |-> FALSE]
               ELSE SuccessorSearchesOn(env, next_time + 1, ebt, L)
          ELSE SuccessorSearchesOn(env, next_time + 1, ebt, L)

RECURSIVE Successor(_, _, _, _)
\* the while loop over next_time: what is appended for env, and whether
\* indexing lines with a str line number raises TypeError
Successor(env, next_time, ebt, L) ==
  IF PyInt(next_time) \notin DOMAIN ebt THEN [out |-> <<>>, err |-> FALSE]
  ELSE LET next_env == ebt[PyInt(next_time)]
       IN IF /\ "frame" \in DOMAIN env
             /\ "frame" \in DOMAIN next_env
             /\ env["frame"].v = next_env["frame"].v
          THEN IF env["lineno"].t # "int" THEN [out |-> <<>>, err |-> TRUE]
               ELSE IF ForwardStep(env, next_env, L)
               THEN [out |-> <<next_env>>, err |-> FALSE]
               ELSE [out |-> <<>>, err |-> FALSE]
          ELSE Successor(env, next_time + 1, ebt, L)

\* NextOf without the branch of the loop-end markers
NextOfDropsEnd(env, ebt, L) ==
  IF "begin_loop" \in DOMAIN env THEN [out |-> <<env>>, err |-> FALSE]
  ELSE IF "time" \in DOMAIN env
  THEN IF env["time"].t # "int" THEN [out |-> <<>>, err |-> TRUE]
       ELSE Successor(env, env["time"].v + 1, ebt, L)
  ELSE [out |-> <<>>, err |-> FALSE]

\* what one env of a line's list contributes to next_envs
NextOf(env, ebt, L) ==
  IF "begin_loop" \in DOMAIN env THEN [out |-> <<env>>, err |-> FALSE]
  ELSE IF "end_loop" \in DOMAIN env THEN [out |-> <<env>>, err |-> FALSE]
  ELSE IF "time" \in DOMAIN env
  THEN IF env["time"].t # "int" THEN [out |-> <<>>, err |-> TRUE]
       ELSE Successor(env, env["time"].v + 1, ebt, L)
  ELSE [out |-> <<>>, err |-> FALSE]

RECURSIVE NextEnvs(_, _, _)
NextEnvs(envs, ebt, L) ==
  IF envs = <<>> THEN <<>>
  ELSE NextOf(Head(envs), ebt, L).out \o NextEnvs(Tail(envs), ebt, L)

\* adjust_to_next_time_step raises TypeError (env["time"] + 1 on a str, or
\* lines[...] indexed with a str)
adjust_raises(D, L) ==
  LET ebt == envs_by_time(D)
  IN \E r \in Refs(D) : NextOf(D[r[1]][r[2]], ebt, L).err

adjust_to_next_time_step(D, L) ==
  LET ebt == envs_by_time(D)
  IN [lineno \in DOMAIN D |-> NextEnvs(D[lineno], ebt, L)]

remove_frame_data(D) ==
  [lineno \in DOMAIN D |->
     [i \in DOMAIN D[lineno] |->
        [k \in (DOMAIN D[lineno][i]) \ {"frame"} |-> D[lineno][i][k]]]]

(***************************************************************************)
(* The write-set analyzer's parse-and-retry loop.  The parser rejects a    *)
(* no-op line or a statement marked n = 1 and reports its line.            *)
(***************************************************************************)
BlankLine == Ln(0, "blank", "", "", 0)

IsMagic(str) == str.kind = "noop"

\* e.lineno of the SyntaxError of ast.parse, 0 when the source parses
ParseError(L) ==
  LET bad == { i \in DOMAIN L : L[i].kind \in {"noop", "stmt"} /\ L[i].n = 1 }
  IN IF bad = {} THEN 0 ELSE CHOOSE i \in bad : \A j \in bad : i <= j

\* the lines after the loop "while lineno >= 0"; line lineno of the code is
\* L[lineno + 1]
blank_upto(L, lineno) ==
  [i \in DOMAIN L |-> IF i - 1 <= lineno /\ IsMagic(L[i]) THEN BlankLine ELSE L[i]]

\* a flag that is set whether or not a line was blanked
did_lines_change_always(L, lineno) == TRUE

\* the flag did_lines_change after that loop
did_lines_change(L, lineno) == \E i \in DOMAIN L : i - 1 <= lineno /\ IsMagic(L[i])

RECURSIVE compute_writes(_)
\* the lines as the loop leaves them, and the exception of the result
compute_writes(L) ==
  LET e == ParseError(L)
      lineno == e - 1
  IN IF e = 0 THEN [lines |-> L, exception |-> None]
     ELSE IF ~did_lines_change(L, lineno)
     THEN [lines |-> L, exception |-> PyExc("SyntaxError", "invalid syntax")]
     ELSE compute_writes(blank_upto(L, lineno))

(***************************************************************************)
(* The interpreter's steps between two notifications.  A configuration is  *)
(* the call stack, the pending notification and the next frame identity.   *)
(***************************************************************************)
Pc(ev, rv, e) == [ev |-> ev, rv |-> rv, e |-> e]
Cfg(st, p, nid) == [stack |-> st, pc |-> p, nextId |-> nid]

\* the notifications of a library function that raises and handles an error
\* of its own, and of a list comprehension
LibScript == << "line", "exception", "line", "return" >>
CompScript == << "line", "line", "return" >>
LibError == PyExc("FileNotFoundError", "No such file or directory")

Top(st) == st[Len(st)]
SetTop(st, f) == [st EXCEPT ![Len(st)] = f]

NewFrame(id, name, file, lineno, script) ==
  [id |-> id, co_name |-> name, co_filename |-> file, f_lineno |-> lineno,
   f_locals |-> EmptyDict, cnt |-> [i \in DOMAIN lines |-> 0], brk |-> 0,
   script |-> script, callee |-> ""]

ModuleFrame(id, lineno) ==
  [NewFrame(id, "<module>", "<string>", lineno, <<>>) EXCEPT
     !.f_locals = DictSet(EmptyDict, "__name__", PyStr("__main__"))]

\* the frame of an expression compiled with the file name "" that calls fn
EvalFrame(id, fn) ==
  [NewFrame(id, "<module>", "", 1, << "line", "return" >>) EXCEPT !.callee = fn]

\* the def statement of fn has run
Defined(fn) ==
  /\ \E i \in DOMAIN lines : lines[i].kind = "def" /\ lines[i].w = fn
  /\ PyInt(DefLine(fn) - 1) \in DOMAIN data

\* the value of a name: a local of the running frame, else a global
Lookup(st, name) ==
  IF name \in DOMAIN Top(st).f_locals THEN Top(st).f_locals[name] ELSE st[1].f_locals[name]

\* the value of the return statement at the top frame's line
ReturnValue(st) ==
  LET ln == lines[Top(st).f_lineno]
  IN IF ln.w # "" THEN Lookup(st, ln.w) ELSE PyInt(Top(st).f_lineno)

\* the pending notification of a frame that replays a script
ScriptPc(script) ==
  IF Head(script) = "exception" THEN Pc("exception", None, LibError)
  ELSE Pc(Head(script), None, None)

\* control moves to line j of the top frame, or the frame ends (j = 0)
Goto(st, j, nid) ==
  IF j = 0 THEN Cfg(st, Pc("return", None, None), nid)
  ELSE Cfg(SetTop(st, [Top(st) EXCEPT !.f_lineno = j]), Pc("line", None, None), nid)

Bind(f, name, val) ==
  IF name = "" THEN f ELSE [f EXCEPT !.f_locals = DictSet(@, name, val)]

\* the statement at the top frame's line is complete
Complete(st, nid) ==
  LET f == Top(st)
      i == f.f_lineno
      val == IF lines[i].kind = "def" THEN PyFunction ELSE PyInt(i)
  IN Goto(SetTop(st, Bind(f, lines[i].w, val)), After(i), nid)

Call(st, callee, nid) ==
  LET callerLine == Top(st).f_lineno
      g == IF callee = "$lib"
           THEN NewFrame(nid, "exists", "genericpath.py", 1, LibScript)
           ELSE IF callee = "<listcomp>"
           THEN NewFrame(nid, "<listcomp>", "<string>", callerLine, CompScript)
           ELSE NewFrame(nid, callee, "<string>", FirstInBlock(DefLine(callee)), <<>>)
  IN Cfg(Append(st, g), IF g.script # <<>> THEN ScriptPc(g.script) ELSE Pc("line", None, None),
         nid + 1)

\* the caller goes on after its callee has returned
ResumeCaller(st, nid) ==
  LET f == Top(st)
  IN IF f.script # <<>>
     THEN Cfg(SetTop(st, [f EXCEPT !.script = Tail(f.script)]), ScriptPc(Tail(f.script)), nid)
     ELSE IF lines[f.f_lineno].kind = "return"
     THEN Cfg(st, Pc("return", ReturnValue(st), None), nid)
     ELSE Complete(st, nid)

\* the frame on top has been left
Leave(st, e, nid) ==
  LET st1 == SubSeq(st, 1, Len(st) - 1)
  IN IF st1 = <<>> THEN Cfg(st1, Pc("end", None, e), nid)
     ELSE IF e # None THEN Cfg(st1, Pc("exception", None, e), nid)
     ELSE ResumeCaller(st1, nid)

\* a frame that replays a script moves to its next notification
ScriptNext(st, nid) ==
  LET f == Top(st)
      rest == Tail(f.script)
  IN IF rest = <<>> THEN Leave(st, None, nid)
     ELSE Cfg(SetTop(st, [f EXCEPT !.script = rest]), ScriptPc(rest), nid)

\* the configurations the interpreter can be in at the next notification,
\* after the statement of the top frame's line was announced
ExecLine(st, nid) ==
  LET f == IF Top(st).brk = 0 THEN Top(st)
           ELSE [Top(st) EXCEPT !.cnt[Top(st).brk] = 0, !.brk = 0]
      i == f.f_lineno
      ln == lines[i]
      c == f.cnt[i]
  IN IF f.script # <<>> /\ f.callee # ""
     THEN IF Defined(f.callee)
          THEN { Call(SetTop(st, [f EXCEPT !.callee = ""]), f.callee, nid) }
          ELSE { Cfg(st, Pc("exception", None,
                            PyExc("NameError", "name '" \o f.callee \o "' is not defined")), nid) }
     ELSE IF f.script # <<>> THEN { ScriptNext(st, nid) }
     ELSE IF ln.kind = "loop"
     THEN (IF ln.n = -1 \/ (ln.n = 0 /\ c < MaxIter) \/ (ln.n > 0 /\ c < ln.n)
           THEN { Goto(SetTop(st, Bind([f EXCEPT !.cnt[i] = c + 1], ln.w, PyInt(c))),
                       FirstInBlock(i), nid) }
           ELSE {})
          \cup
          (IF ln.n = 0 \/ (ln.n > 0 /\ c >= ln.n)
           THEN { Goto(SetTop(st, [f EXCEPT !.cnt[i] = 0]), After(i), nid) }
           ELSE {})
     ELSE IF ln.kind = "if"
     THEN { Goto(SetTop(st, f), After(i), nid) }
          \cup (IF Len(st) <= MaxDepth THEN { Goto(SetTop(st, f), FirstInBlock(i), nid) } ELSE {})
     ELSE IF ln.kind = "break"
     THEN { Goto(SetTop(st, [f EXCEPT !.brk = InnerLoop(i)]), After(InnerLoop(i)), nid) }
     ELSE IF ln.kind = "raise"
     THEN { Cfg(SetTop(st, f), Pc("exception", None, PyExc("ValueError", ToString(i))), nid) }
     ELSE IF ln.kind \in {"try", "except"}
     THEN { Goto(SetTop(st, f), FirstInBlock(i), nid) }
     ELSE IF ln.callee # ""
     THEN { Call(SetTop(st, f), ln.callee, nid) }
     ELSE IF ln.kind = "return"
     THEN { Cfg(SetTop(st, f), Pc("return", ReturnValue(SetTop(st, f)), None), nid) }
     ELSE { Complete(SetTop(st, f), nid) }

\* after an exception was announced in the top frame
ExecException(st, e, nid) ==
  LET f == Top(st)
      h == IF f.script # <<>> THEN 0 ELSE Handler(f.f_lineno)
  IN IF f.co_filename = "" THEN Cfg(st, Pc("return", None, e), nid)
     ELSE IF f.script # <<>> THEN ScriptNext(st, nid)
     ELSE IF h # 0
     THEN Goto(SetTop(st, [f EXCEPT !.cnt = [j \in DOMAIN f.cnt |->
                                               IF Encloses(j, h) THEN f.cnt[j] ELSE 0]]),
               h, nid)
     ELSE Cfg(st, Pc("return", None, e), nid)

\* after the return of the top frame was announced
ExecReturn(st, e, nid) ==
  IF Top(st).script # <<>> /\ e = None THEN ScriptNext(st, nid) ELSE Leave(st, e, nid)

(***************************************************************************)
(* The specification: main, and the three notifications of the tracer.     *)
(***************************************************************************)
FirstStmt(L) ==
  CHOOSE i \in DOMAIN L : /\ L[i].kind \notin {"blank", "cont"}
                          /\ \A j \in 1..(i-1) : L[j].kind \in {"blank", "cont"}

\* the Logger object
Self ==
  [time |-> time, prev_env |-> prev_env, data |-> data, active_loops |-> active_loops,
   preexisting_locals |-> preexisting_locals, exception |-> exception,
   quitting |-> quitting, raised |-> ""]

SetSelf(S) ==
  /\ time' = S.time
  /\ prev_env' = S.prev_env
  /\ data' = S.data
  /\ active_loops' = S.active_loops
  /\ preexisting_locals' = S.preexisting_locals
  /\ exception' = S.exception
  /\ quitting' = S.quitting

SetCfg(c) ==
  /\ stack' = c.stack
  /\ pc' = c.pc
  /\ nextId' = c.nextId

Init ==
  /\ prog \in DOMAIN Programs
  /\ lines = Programs[prog]
  /\ phase = "start"
  /\ stack = <<>>
  /\ pc = Pc("none", None, None)
  /\ nextId = 1
  /\ time = 0
  /\ prev_env = None
  /\ data = EmptyDict
  /\ active_loops = <<>>
  /\ preexisting_locals = None
  /\ exception = None
  /\ quitting = FALSE
  /\ return_code = 0
  /\ run_time_data = EmptyDict
  /\ written = FALSE
  /\ comments = <<>>
  /\ tests = <<>>
  /\ ti = 1
  /\ test_results = <<>>
  /\ evalv = [v |-> None, returned |-> FALSE]
  /\ crd_exception = None
  /\ run_end = [data |-> EmptyDict, time |-> 0, active_loops |-> <<>>]
  /\ w_phase = "off"
  /\ w_exception = None
  /\ writes = EmptyDict
  /\ node = None
  /\ w_i = 0
  /\ retried = FALSE

\* main up to the start of the trace: compute_writes, and on a parse failure
\* the output with return code 1
Analyze ==
  /\ phase = "start"
  /\ LET r == compute_writes(lines)
     IN /\ lines' = r.lines
        /\ IF r.exception # None
           THEN /\ return_code' = 1
                /\ written' = TRUE
                /\ phase' = "done"
                /\ UNCHANGED << stack, pc, nextId >>
           ELSE /\ phase' = "trace"
                /\ stack' = << ModuleFrame(1, FirstStmt(r.lines)) >>
                /\ pc' = Pc("line", None, None)
                /\ nextId' = 2
                /\ UNCHANGED << return_code, written >>
  /\ UNCHANGED wvars
  /\ UNCHANGED << prog, time, prev_env, data, active_loops, preexisting_locals,
                  exception, quitting, run_time_data, tvars >>

\* the before-statement notification, and the target's run up to the next one
UserLine ==
  /\ phase \in {"trace", "eval"}
  /\ pc.ev = "line"
  /\ LET S == user_line(Self, Top(stack))
     IN /\ SetSelf(S)
        /\ IF S.quitting
           THEN SetCfg(Cfg(<<>>, Pc("end", None, None), nextId))
           ELSE \E c \in ExecLine(stack, nextId) : SetCfg(c)
  /\ UNCHANGED wvars
  /\ UNCHANGED << prog, lines, phase, return_code, run_time_data, written, tvars >>

\* the on-exception notification
UserException ==
  /\ phase \in {"trace", "eval"}
  /\ pc.ev = "exception"
  /\ SetSelf(user_exception(Self, Top(stack), pc.e))
  /\ SetCfg(ExecException(stack, pc.e, nextId))
  /\ UNCHANGED wvars
  /\ UNCHANGED << prog, lines, phase, return_code, run_time_data, written, tvars >>

\* the on-return notification; an error the handler raises itself leaves the
\* target as its exception, with tracing switched off by set_quit.  The
\* value the function called by a test returns is what runeval will return.
UserReturn ==
  /\ phase \in {"trace", "eval"}
  /\ pc.ev = "return"
  /\ LET S == user_return(Self, Top(stack), pc.rv)
     IN /\ SetSelf(S)
        /\ IF S.raised # ""
           THEN SetCfg(Cfg(<<>>, Pc("end", None, PyExc(S.raised, "list index out of range")), nextId))
           ELSE IF S.quitting
           THEN SetCfg(Cfg(<<>>, Pc("end", None, None), nextId))
           ELSE SetCfg(ExecReturn(stack, pc.e, nextId))
        /\ evalv' = IF /\ phase = "eval" /\ Len(stack) = 2 /\ pc.e = None
                       /\ S.raised = "" /\ ~S.quitting
                    THEN [v |-> pc.rv, returned |-> TRUE]
                    ELSE evalv
  /\ UNCHANGED wvars
  /\ UNCHANGED << prog, lines, phase, return_code, run_time_data, written,
                  comments, tests, ti, test_results, crd_exception, run_end >>

\* a test comment parses
Parses(c) == c.kind # "bad"

\* compute_runtime_data when run has ended: the exception of the run, and
\* the TestLine of every test comment that parses.  The comments were read
\* from the file before the run, which does not see them.
EndRun ==
  /\ phase = "trace"
  /\ pc.ev = "end"
  /\ phase' = "tests"
  /\ crd_exception' = pc.e
  /\ \E cs \in TestComments(prog) :
       /\ comments' = cs
       /\ tests' = SelectSeq(cs, Parses)
  /\ ti' = 1
  /\ test_results' = <<>>
  /\ run_end' = [data |-> data, time |-> time, active_loops |-> active_loops]
  /\ UNCHANGED wvars
  /\ UNCHANGED << prog, lines, stack, pc, nextId, time, prev_env, data, active_loops,
                  preexisting_locals, exception, quitting, return_code, run_time_data,
                  written, evalv >>

\* runeval of the call of the next test: reset, and the expression's frame
StartTest ==
  /\ phase = "tests"
  /\ ti <= Len(tests)
  /\ phase' = "eval"
  /\ stack' = << EvalFrame(nextId, tests[ti].fn) >>
  /\ pc' = Pc("line", None, None)
  /\ nextId' = nextId + 1
  /\ quitting' = FALSE
  /\ evalv' = [v |-> None, returned |-> FALSE]
  /\ UNCHANGED wvars
  /\ UNCHANGED << prog, lines, time, prev_env, data, active_loops, preexisting_locals,
                  exception, return_code, run_time_data, written,
                  comments, tests, ti, test_results, crd_exception, run_end >>

\* runeval has ended: an exception of the evaluation is printed and the test
\* skipped; else the expected value, a constant, is evaluated (only
\* notifications of the expression's frame, which the tracer ignores) and the
\* triple recorded
EndTest ==
  /\ phase = "eval"
  /\ pc.ev = "end"
  /\ phase' = "tests"
  /\ ti' = ti + 1
  /\ test_results' =
       IF pc.e # None THEN test_results
       ELSE LET actual_value == evalv.v
                expected_value == tests[ti].expected
                passed == IF tests[ti].kind = "call" THEN None
                          ELSE [t |-> "bool", v |-> (actual_value = expected_value)]
            IN Append(test_results, << actual_value, expected_value, passed >>)
  /\ UNCHANGED wvars
  /\ UNCHANGED << prog, lines, stack, pc, nextId, time, prev_env, data, active_loops,
                  preexisting_locals, exception, quitting, return_code, run_time_data,
                  written, comments, tests, evalv, crd_exception, run_end >>

\* compute_runtime_data after the tests, and main's output
Finish ==
  /\ phase = "tests"
  /\ ti > Len(tests)
  /\ phase' = "done"
  /\ IF adjust_raises(data, lines)
     THEN UNCHANGED << data, run_time_data, return_code, written >>
     ELSE /\ data' = remove_frame_data(adjust_to_next_time_step(data, lines))
          /\ run_time_data' = data'
          /\ return_code' = IF crd_exception # None THEN 2 ELSE 0
          /\ written' = TRUE
  /\ UNCHANGED wvars
  /\ UNCHANGED << prog, lines, stack, pc, nextId, time, prev_env, active_loops,
                  preexisting_locals, exception, quitting, tvars >>

Next ==
  \/ Analyze
  \/ UserLine
  \/ UserException
  \/ UserReturn
  \/ EndRun
  \/ StartTest
  \/ EndTest
  \/ Finish

Spec == Init /\ [][Next]_vars

(***************************************************************************)
(* The write-set analyzer on its own: compute_writes under a parser that   *)
(* may fail at any attempt and report any position, and WriteCollector     *)
(* over the assignment targets of the tree.  A node of the tree is a       *)
(* record of the attributes the ast class has.                             *)
(***************************************************************************)
Name(id, lineno) == [kind |-> "Name", id |-> id, ctx |-> "Load", lineno |-> lineno]
CallExpr(lineno) == [kind |-> "Call", lineno |-> lineno]
Subscript(value) ==
  [kind |-> "Subscript", value |-> value, ctx |-> "Load", lineno |-> value.lineno]
Attribute(value) ==
  [kind |-> "Attribute", value |-> value, attr |-> "x", ctx |-> "Load", lineno |-> value.lineno]

RECURSIVE Exprs(_, _)
\* the expressions of line lineno nested up to depth d
Exprs(d, lineno) ==
  IF d = 0 THEN { Name("a", lineno), CallExpr(lineno) }
  ELSE LET inner == Exprs(d - 1, lineno)
       IN inner \cup { Subscript(v) : v \in inner } \cup { Attribute(v) : v \in inner }

\* the targets an assignment statement of line lineno can have
Targets(lineno) ==
  { [v EXCEPT !.ctx = "Store"] : v \in { x \in Exprs(MaxNest, lineno) : x.kind # "Call" } }

\* the target of the statement of an injected no-op line
NoopTarget(lineno) == [Name(magic_var_name, lineno) EXCEPT !.ctx = "Store"]

\* what the parser reports: no position, or a line number
Positions(L) == { None } \cup { PyInt(n) : n \in 0..(Len(L) + 1) }

WriteCollector_data_at(W, l) == IF l \in DOMAIN W THEN W ELSE DictSet(W, l, <<>>)

record_write(W, lineno, id) ==
  IF id # magic_var_name
  THEN [WriteCollector_data_at(W, lineno - 1) EXCEPT ![lineno - 1] = Append(@, id)]
  ELSE W

RECURSIVE find_id(_)
\* "" stands for None
find_id(n) ==
  IF "id" \in DOMAIN n THEN n.id
  ELSE IF "value" \in DOMAIN n THEN find_id(n.value)
  ELSE ""

visit_Name(W, n) ==
  IF n.ctx = "Store" THEN record_write(W, n.lineno, n.id) ELSE W

visit_Subscript(W, n) ==
  IF n.ctx = "Store"
  THEN IF find_id(n) = "" THEN W ELSE record_write(W, n.lineno, find_id(n))
  ELSE W

RECURSIVE visit(_, _)
\* ast.NodeVisitor.generic_visit: the child nodes in turn
generic_visit(W, n) == IF "value" \in DOMAIN n THEN visit(W, n.value) ELSE W

\* ast.NodeVisitor.visit: the method named after the class, if there is one
visit(W, n) ==
  IF n.kind = "Name" THEN visit_Name(W, n)
  ELSE IF n.kind = "Subscript" THEN visit_Subscript(W, n)
  ELSE generic_visit(W, n)

\* the source texts handed to compute_writes: statements and no-op lines
Sources ==
  UNION { [1..n -> { Ln(0, "stmt", "", "a", 0), Ln(0, "noop", "", magic_var_name, 0) }]
          : n \in 1..MaxLines }

InitWrites ==
  /\ lines \in Sources
  /\ prog = 0
  /\ phase = "writes"
  /\ stack = <<>>
  /\ pc = Pc("none", None, None)
  /\ nextId = 1
  /\ time = 0
  /\ prev_env = None
  /\ data = EmptyDict
  /\ active_loops = <<>>
  /\ preexisting_locals = None
  /\ exception = None
  /\ quitting = FALSE
  /\ return_code = 0
  /\ run_time_data = EmptyDict
  /\ written = FALSE
  /\ comments = <<>>
  /\ tests = <<>>
  /\ ti = 1
  /\ test_results = <<>>
  /\ evalv = [v |-> None, returned |-> FALSE]
  /\ crd_exception = None
  /\ run_end = [data |-> EmptyDict, time |-> 0, active_loops |-> <<>>]
  /\ w_phase = "parse"
  /\ w_exception = None
  /\ writes = EmptyDict
  /\ node = None
  /\ w_i = 0
  /\ retried = FALSE

\* ast.parse returns a tree
ParseOk ==
  /\ w_phase = "parse"
  /\ w_phase' = "visit"
  /\ w_i' = 1
  /\ UNCHANGED << lines, w_exception, writes, node, retried, mvars >>

\* ast.parse raises, the handler blanks a no-op line and the loop goes round
ParseRetry ==
  /\ w_phase = "parse"
  /\ \E e_lineno \in Positions(lines) \ { None } :
       LET lineno == e_lineno.v - 1
       IN /\ lineno < Len(lines)
          /\ did_lines_change(lines, lineno)
          /\ lines' = blank_upto(lines, lineno)
  /\ retried' = TRUE
  /\ UNCHANGED << w_phase, w_exception, writes, node, w_i, mvars >>

\* ast.parse raises and the handler raises: the position is no number, it is
\* past the last line, or no line was blanked
ParseFail ==
  /\ w_phase = "parse"
  /\ \E e_lineno \in Positions(lines) :
       IF e_lineno = None
       THEN w_exception' = PyExc("TypeError", "unsupported operand type(s) for -")
       ELSE LET lineno == e_lineno.v - 1
            IN IF lineno >= Len(lines)
               THEN w_exception' = PyExc("IndexError", "list index out of range")
               ELSE /\ ~did_lines_change(lines, lineno)
                    /\ w_exception' = PyExc("SyntaxError", "invalid syntax")
  /\ w_phase' = "done"
  /\ UNCHANGED << lines, writes, node, w_i, retried, mvars >>

\* write_collector.visit(root), one statement of the tree at a step
Visit ==
  /\ w_phase = "visit"
  /\ w_i <= Len(lines)
  /\ \E n \in IF lines[w_i].kind = "stmt" THEN Targets(w_i)
              ELSE IF lines[w_i].kind = "noop" THEN { NoopTarget(w_i) }
              ELSE { None } :
       /\ node' = n
       /\ writes' = IF n = None THEN writes ELSE visit(writes, n)
  /\ w_i' = w_i + 1
  /\ UNCHANGED << lines, w_phase, w_exception, retried, mvars >>

\* return (writes, exception)
ReturnWrites ==
  /\ w_phase = "visit"
  /\ w_i > Len(lines)
  /\ w_phase' = "done"
  /\ UNCHANGED << lines, w_exception, writes, node, w_i, retried, mvars >>

NextWrites ==
  \/ ParseOk
  \/ ParseRetry
  \/ ParseFail
  \/ Visit
  \/ ReturnWrites

SpecWrites == InitWrites /\ [][NextWrites]_vars

\* the loop is sequential code: a step that can be taken is taken
FairSpecWrites == SpecWrites /\ WF_vars(NextWrites)

(***************************************************************************)
(* Properties of the tracer.                                               *)
(***************************************************************************)
\* the positions of the envs that carry a time stamp
Stamped(D) == { r \in Refs(D) : "time" \in DOMAIN D[r[1]][r[2]] }

StampOf(D, r) == D[r[1]][r[2]]["time"]

\* C1: every time stamp of the timeline is the integer the counter handed
\* out: the stamps are pairwise distinct, they are exactly 0 .. time - 1, they
\* grow along every line's list, and the newest env carries the greatest.
C1_TimeStampsUniqueIncreasing ==
  phase = "trace" =>
    LET st == Stamped(data)
    IN /\ \A r \in st : StampOf(data, r).t = "int"
       /\ \A r \in st : StampOf(data, r).v \in 0..(time - 1)
       /\ \A r, q \in st : r # q => StampOf(data, r) # StampOf(data, q)
       /\ Cardinality(st) = time
       /\ \A r, q \in st : (r[1] = q[1] /\ r[2] < q[2]) => StampOf(data, r).v < StampOf(data, q).v
       /\ prev_env # None => Deref(data, prev_env)["time"].v = time - 1

\* C2: once the step budget has stopped the session, at a before-statement
\* or at an on-return notification, the run has ended without an error and
\* the status written is 0.
C2_BudgetEndsCleanly ==
  quitting =>
    /\ pc.ev = "end"
    /\ pc.e = None
    /\ phase = "done" => (written /\ return_code = 0)

IsBegin(env) == "begin_loop" \in DOMAIN env

IsEnd(env) == "end_loop" \in DOMAIN env

EndsWith(str, suffix) ==
  /\ Len(str) >= Len(suffix)
  /\ SubSeq(str, Len(str) - Len(suffix) + 1, Len(str)) = suffix

\* the last component of a comma-separated string is the number n
LastIs(str, n) == str = ToString(n) \/ EndsWith(str, "," \o ToString(n))

IsMarker(env) == IsBegin(env) \/ IsEnd(env)

\* the loop header a marker is about: the last of its loop ids
MarkerHeader(env) == CHOOSE h \in 0..Len(lines) : LastIs(env["$"].v, h)

\* the markers of header h in a line's list, in order
Markers(envs, h) ==
  SelectSeq(envs, LAMBDA e : IsMarker(e) /\ MarkerHeader(e) = h)

Headers == 0..(Len(lines) - 1)

\* C3: in every line's list the markers of one loop header alternate,
\* loop-begin first: never two loop-end markers of a header without a
\* loop-begin of that header between them.
C3_MarkersAlternate ==
  phase = "trace" =>
    \A k \in DOMAIN data : \A h \in Headers :
      LET ms == Markers(data[k], h)
      IN \A i \in DOMAIN ms : IF i % 2 = 1 THEN IsBegin(ms[i]) ELSE IsEnd(ms[i])

\* C4: when a session that the step budget did not stop has ended, every
\* loop that was entered has been left: no LoopInfo is on the stack, and
\* every line's list holds as many loop-end as loop-begin markers of every
\* header.
C4_LoopsClosedAtEnd ==
  (phase = "trace" /\ pc.ev = "end" /\ ~quitting) =>
    /\ active_loops = <<>>
    /\ \A k \in DOMAIN data : \A h \in Headers :
         LET ms == Markers(data[k], h)
         IN Len(SelectSeq(ms, IsBegin)) = Len(SelectSeq(ms, IsEnd))

\* the place on the stack of the LoopInfo of the loop at line h (1-based) of
\* the frame id, 0 if there is none
LoopOf(AL, id, h) ==
  LET own == { i \in DOMAIN AL : AL[i].frame.v = id /\ AL[i].lineno = h - 1 }
  IN IF own = {} THEN 0 ELSE CHOOSE i \in own : \A j \in own : j <= i

\* a LoopInfo that stays on the stack never counts down
IterNeverDecreases ==
  \A i \in DOMAIN active_loops :
    (/\ i \in DOMAIN active_loops'
     /\ active_loops'[i].frame = active_loops[i].frame
     /\ active_loops'[i].lineno = active_loops[i].lineno)
    => active_loops'[i].iter >= active_loops[i].iter

\* before a statement of a loop body the loop's LoopInfo counts the full
\* traversals: the body was entered cnt times and the last one is under way
CountIsTraversals ==
  (/\ phase = "trace"
   /\ pc.ev = "line"
   /\ Top(stack).script = <<>>
   /\ InnerLoop(Top(stack).f_lineno) # 0)
  => LET f == Top(stack)
         h == InnerLoop(f.f_lineno)
         i == LoopOf(active_loops, f.id, h)
     IN /\ i # 0
        /\ active_loops[i].iter = f.cnt[h] - 1

\* the notification after a break closes the loop with one loop-end marker
\* that counts the traversal the break cut short
BreakReportsNext ==
  (/\ phase = "trace"
   /\ pc.ev = "line"
   /\ Top(stack).script = <<>>
   /\ Top(stack).brk # 0)
  => LET f == Top(stack)
         k == PyInt(FirstInBlock(f.brk) - 1)
         n == Len(data[k])
     IN /\ Len(data'[k]) = n + 1
        /\ IsEnd(data'[k][n + 1])
        /\ LastIs(data'[k][n + 1]["end_loop"].v, f.cnt[f.brk])

\* C5: the iteration count of a LoopInfo never decreases while it is on the
\* stack, it is the number of full traversals of the body, and a loop left
\* by break after k full traversals is closed with the count k + 1.
C5_IterationCounts ==
  [][IterNeverDecreases /\ CountIsTraversals' /\ BreakReportsNext]_vars

\* C6: the on-return notification of a return statement pops exactly the
\* LoopInfos of the returning frame: those of other frames stay on the
\* stack, with their iteration counts, and get no marker.
C6_ReturnPopsOwnLoops ==
  [][(/\ phase = "trace"
      /\ pc.ev = "return"
      /\ ~Filtered(Top(stack))
      /\ lines[Top(stack).f_lineno].kind = "return")
     => LET id == Top(stack).id
            others == SelectSeq(active_loops, LAMBDA l : l.frame.v # id)
            own == { i \in DOMAIN active_loops : active_loops[i].frame.v = id }
            closed == UNION { { PyInt(l) : l \in { stmts_in_loop(active_loops[i].lineno)[j] :
                                         j \in DOMAIN stmts_in_loop(active_loops[i].lineno) } } :
                              i \in own }
        IN /\ active_loops' = others
           /\ \A k \in DOMAIN data :
                k \notin closed =>
                  Len(SelectSeq(data'[k], IsMarker)) = Len(SelectSeq(data[k], IsMarker))]_vars

(***************************************************************************)
(* Properties of the materializer, stated of the raw timeline of every     *)
(* state of the trace.                                                     *)
(***************************************************************************)
EnvAt(D, r) == D[r[1]][r[2]]

\* every time stamp of the timeline is an integer
IntStamps(D) == \A r \in Stamped(D) : StampOf(D, r).t = "int"

\* the later envs of the frame of the env at r
Later(D, r) ==
  { q \in Stamped(D) : /\ StampOf(D, q).v > StampOf(D, r).v
                       /\ EnvAt(D, q)["frame"].v = EnvAt(D, r)["frame"].v }

\* the earliest env of a non-empty set of positions
Nearest(D, Q) == EnvAt(D, CHOOSE q \in Q : \A p \in Q : StampOf(D, q).v <= StampOf(D, p).v)

\* the step from env to succ is a genuine step forward
GenuineStep(env, succ) ==
  \/ "Exception Thrown" \in DOMAIN succ
  \/ lines[env["lineno"].v + 1].kind # "loop"
  \/ lines[remove_R(succ["lineno"]) + 1].ind > lines[env["lineno"].v + 1].ind

\* the later envs of the frame that are a genuine step forward
LaterForward(D, r) == { q \in Later(D, r) : GenuineStep(EnvAt(D, r), EnvAt(D, q)) }

\* a line's list with every marker kept and the env at place i replaced by
\* what succ gives for it
Replaced(D, k, succ(_)) ==
  LET Go[i \in 0..Len(D[k])] ==
        IF i = 0 THEN <<>>
        ELSE Go[i - 1] \o (IF IsMarker(D[k][i]) THEN << D[k][i] >> ELSE succ(<<k, i>>))
  IN Go[Len(D[k])]

C8_MarkersSurviveRematerializing ==
  (phase = "trace" /\ ~adjust_raises(data, lines)) =>
    LET M1 == adjust_to_next_time_step(data, lines)
        M2 == adjust_to_next_time_step(M1, lines)
        P1 == remove_frame_data(M1)
        P2 == adjust_to_next_time_step(P1, lines)
    IN /\ ~adjust_raises(M1, lines)
       /\ ~adjust_raises(P1, lines)
       /\ DOMAIN M2 = DOMAIN M1
       /\ DOMAIN P2 = DOMAIN P1
       /\ \A k \in DOMAIN data :
            /\ SelectSeq(M1[k], IsMarker) = SelectSeq(data[k], IsMarker)
            /\ SelectSeq(M2[k], IsMarker) = SelectSeq(M1[k], IsMarker)
            /\ Len(M2[k]) <= Len(M1[k])
            /\ P2[k] = SelectSeq(P1[k], IsMarker)

\* C8 is at work: a line's materialized list holds a loop-end marker and a
\* time-stamped env, and a second materialization changes it, before and
\* after the frame identities are stripped
C8_Witness ==
  /\ phase = "trace"
  /\ ~adjust_raises(data, lines)
  /\ LET M1 == adjust_to_next_time_step(data, lines)
         P1 == remove_frame_data(M1)
     IN \E k \in DOMAIN M1 :
          /\ \E i \in DOMAIN M1[k] : IsEnd(M1[k][i])
          /\ \E i \in DOMAIN M1[k] : "time" \in DOMAIN M1[k][i]
          /\ adjust_to_next_time_step(M1, lines)[k] # M1[k]
          /\ adjust_to_next_time_step(P1, lines)[k] # P1[k]

\* C8 as the specification has it: materializing a materialized timeline
\* gives that timeline again, before and after the frame identities are
\* stripped.
C8_Idempotent ==
  (phase = "trace" /\ ~adjust_raises(data, lines)) =>
    LET M1 == adjust_to_next_time_step(data, lines)
        P1 == remove_frame_data(M1)
    IN /\ adjust_to_next_time_step(M1, lines) = M1
       /\ adjust_to_next_time_step(P1, lines) = P1

\* the analysis of the source text failed
ParseFailed == compute_writes(Programs[prog]).exception # None

\* the target program raised: the run ended with an exception other than the
\* IndexError of the on-return handler itself
TargetRaised == crd_exception # None /\ crd_exception.cls # "IndexError"

\* C9: the output is written with status 1 exactly when the analysis failed
\* (the tracer never started, the timeline is empty), with status 2 exactly
\* when the analysis succeeded and the target raised (the timeline up to
\* there is kept), and with status 0 otherwise.
C9_StatusCodes ==
  phase = "done" =>
    /\ written
    /\ return_code = 1 <=> ParseFailed
    /\ ParseFailed => (time = 0 /\ run_time_data = EmptyDict)
    /\ return_code = 2 <=> (~ParseFailed /\ TargetRaised)
    /\ return_code = 2 => run_time_data # EmptyDict
    /\ return_code = 0 <=> (~ParseFailed /\ ~TargetRaised)

\* C10: the env of an on-return notification carries the exception banner
\* exactly when the frame is left by an exception, and the return value
\* exactly when a frame other than the module returns normally.
C10_BannerIffLeftByException ==
  [][(/\ phase = "trace"
      /\ pc.ev = "return"
      /\ ~Filtered(Top(stack))
      /\ time < StepBudget)
     => LET env == Deref(data', prev_env')
            left_by_exception == pc.e # None
        IN /\ ("Exception Thrown" \in DOMAIN env) <=> left_by_exception
           /\ ("rv" \in DOMAIN env) <=>
                (~left_by_exception /\ Top(stack).co_name # "<module>")]_vars

(***************************************************************************)
(* Properties of the test harness.                                         *)
(***************************************************************************)
\* the status main writes when the file holds no test comment
StatusOfRun == IF crd_exception # None THEN 2 ELSE 0

\* C11: a test comment that does not parse gets no TestLine; a test whose
\* evaluation raises gets no triple and the loop goes on with the next test;
\* and when every comment of the file failed in one of these ways, main
\* writes what it writes for the file without them: the output with the
\* status of the run.
C11_FailingCommentsSkipped ==
  [][/\ (phase = "trace" /\ pc.ev = "end") => tests' = SelectSeq(comments', Parses)
     /\ (phase = "eval" /\ pc.ev = "end" /\ pc.e # None)
          => (test_results' = test_results /\ ti' = ti + 1 /\ phase' = "tests")
     /\ (phase = "tests" /\ ti > Len(tests) /\ test_results = <<>>)
          => /\ written' = ~adjust_raises(run_end.data, lines)
             /\ written' => return_code' = StatusOfRun]_vars

\* C12: when the evaluation of a test ends without an exception, in whatever
\* state the run ended, the call of the test has returned and the triple
\* recorded holds the value it returned, the expected value or None, and
\* whether the two are equal, or None without an expected value.
C12_TripleHoldsValues ==
  [][(phase = "eval" /\ pc.ev = "end" /\ pc.e = None)
     => /\ evalv.returned
        /\ test_results' =
             Append(test_results,
                    << evalv.v, tests[ti].expected,
                       IF tests[ti].kind = "call" THEN None
                       ELSE [t |-> "bool", v |-> (evalv.v = tests[ti].expected)] >>)]_vars

\* C20: while the tests are evaluated the timeline, the time counter and
\* the stack of active loops are those the run of the program left.
C20_TestsLeaveTraceUnchanged ==
  phase \in {"tests", "eval"} =>
    /\ data = run_end.data
    /\ time = run_end.time
    /\ active_loops = run_end.active_loops

\* a notification has recorded an Environment
Recorded == prev_env' # prev_env

\* the mapping env without its next_lineno link
WithoutNext(env) == [k \in (DOMAIN env) \ {"next_lineno"} |-> env[k]]

\* C14: while the tracer runs, every Environment of the timeline stays as it
\* was recorded, but for its next_lineno link: no later notification changes
\* its variables, its loop context, its return value or its banner.
C14_EarlierEnvsOnlyLinked ==
  [][(phase \in {"trace", "eval"}
     => \A r \in Stamped(data) :
          /\ r[1] \in DOMAIN data'
          /\ r[2] \in DOMAIN data'[r[1]]
          /\ WithoutNext(EnvAt(data', r)) = WithoutNext(EnvAt(data, r)))]_vars

\* C15: a notification from a comprehension frame or from a frame that does
\* not execute the traced text leaves time, prev_env, active_loops,
\* exception and the timeline as they were.
C15_FilteredFramesIgnored ==
  [][((/\ phase = "trace"
      /\ pc.ev \in {"line", "return", "exception"}
      /\ Filtered(Top(stack)))
     => UNCHANGED << time, prev_env, active_loops, exception, data >>)]_vars

RECURSIVE EnclosingLoops(_)
\* the headers (numbered from 0) of the loops around line i (numbered from
\* 1) in its function, outermost first
EnclosingLoops(i) ==
  LET p == Enclosing(i)
  IN IF p = 0 \/ lines[p].kind = "def" THEN <<>>
     ELSE IF lines[p].kind = "loop" THEN Append(EnclosingLoops(p), p - 1)
     ELSE EnclosingLoops(p)

\* the header lines of the entries of AL that belong to frame id
OwnLoops(AL, id) ==
  LET own == SelectSeq(AL, LAMBDA x : x.frame.v = id)
  IN [i \in DOMAIN own |-> own[i].lineno]

\* C16: when a statement Environment is recorded at a line that is no loop
\* header, the entries of the active-loop stack of the executing frame are
\* the headers of the loops that enclose the line in its function, outermost
\* first, and they end the loop ids the Environment is stamped with.
C16_LoopContextIsLexical ==
  [][((/\ phase = "trace"
      /\ Recorded
      /\ prev_env'.v[1].t = "int"
      /\ ~is_loop_str(lines[prev_env'.v[1].v + 1]))
     => LET env == Deref(data', prev_env')
            own == OwnLoops(active_loops', env["frame"].v)
            ids == active_loops_id_str(active_loops')
            tail == Join([i \in DOMAIN own |-> ToString(own[i])])
        IN /\ own = EnclosingLoops(prev_env'.v[1].v + 1)
           /\ env["$"] = PyStr(ids)
           /\ Len(tail) <= Len(ids)
           /\ SubSeq(ids, Len(ids) - Len(tail) + 1, Len(ids)) = tail)]_vars

\* C17: during the run, the Environment a notification records carries no
\* next_lineno; it carries no prev_lineno when it is the first, and otherwise
\* its prev_lineno is the line of the Environment recorded before it, whose
\* next_lineno becomes the line of the new one.
C17_ConsecutiveEnvsLinked ==
  [][((phase = "trace" /\ Recorded)
     => LET env == Deref(data', prev_env')
        IN /\ "next_lineno" \notin DOMAIN env
           /\ env["lineno"] = prev_env'.v[1]
           /\ IF prev_env = None
              THEN "prev_lineno" \notin DOMAIN env
              ELSE /\ "prev_lineno" \in DOMAIN env
                   /\ env["prev_lineno"] = prev_env.v[1]
                   /\ Deref(data', prev_env)["next_lineno"] = prev_env'.v[1])]_vars

\* C19: the Environment a notification records carries the bookkeeping
\* fields the tracer stamped, whatever the names of the variables recorded
\* with it: its time is the counter, its frame the executing frame, its line
\* the key it is stored under and its loop context that of the loop stack.
C19_NamesKeepBookkeeping ==
  [][((phase = "trace" /\ Recorded)
     => LET env == Deref(data', prev_env')
        IN /\ env["time"] = PyInt(time)
           /\ env["frame"] = PyFrame(Top(stack).id, Top(stack).co_name)
           /\ env["lineno"] = prev_env'.v[1]
           /\ env["$"].t = "str"
           /\ env["#"].t = "str")]_vars

(***************************************************************************)
(* Properties of the write-set analyzer.                                   *)
(***************************************************************************)
RECURSIVE RootName(_)
\* the name at the root of the value chain of a target, "" if it has none
RootName(n) ==
  IF n.kind = "Name" THEN n.id
  ELSE IF n.kind \in {"Subscript", "Attribute"} THEN RootName(n.value)
  ELSE ""

\* C13: the visit of an assignment statement whose target is a name, a
\* subscript or an attribute, nested to any depth, appends the root name of
\* the target to the writes of the statement's line, and leaves the write
\* set as it is only when the target's chain has no root name.
C13_TargetsRecordRoot ==
  [][((/\ w_phase = "visit"
       /\ w_i <= Len(lines)
       /\ lines[w_i].kind = "stmt")
      => LET l == node'.lineno - 1
             before == WriteCollector_data_at(writes, l)
         IN IF RootName(node') = "" THEN writes' = writes
            ELSE writes' = [before EXCEPT ![l] = Append(@, RootName(node'))])]_vars

\* the number of no-op lines of the source
NoopCount(L) == Cardinality({ i \in DOMAIN L : IsMagic(L[i]) })

\* C18: the parse-and-retry loop ends, whatever the parser reports: between
\* two attempts the number of no-op lines goes down, a failed attempt with
\* no line to blank ends the loop, and the loop ended by a failure leaves an
\* exception and an empty write set.
C18_RetryLoopTerminates ==
  /\ <>(w_phase = "done")
  /\ [][(/\ (w_phase = "parse" /\ w_phase' = "parse")
              => NoopCount(lines') < NoopCount(lines)
         /\ (w_phase = "parse" /\ NoopCount(lines) = 0)
              => w_phase' \in {"visit", "done"}
         /\ (w_phase = "parse" /\ w_phase' = "done")
              => (w_exception' # None /\ writes' = EmptyDict /\ lines' = lines))]_vars

\* the loop has gone round and then ended with a failure that found no line
\* to blank
C18_Witness ==
  /\ w_phase = "done"
  /\ retried
  /\ w_exception # None
  /\ w_exception.cls = "SyntaxError"
  /\ NoopCount(lines) = 0
  /\ writes = EmptyDict

====
